---- MODULE Spec2Model ----
(***************************************************************************)
(* Model of src/app.js: the dashboard's load sequence (init), its data     *)
(* transforms (normalizeAndFormatData, createAggregateData,                *)
(* formatDatasetsForChart, populateYearFilter) and its filter handler      *)
(* (handleFilterChange).                                                   *)
(*                                                                         *)
(* Representation.                                                         *)
(*  - A date key is the ISO date-only string "YYYY-MM-DD" of data.json,    *)
(*    held as the triple <<YYYY, MM, DD>>; two keys are the same string    *)
(*    exactly when the triples are equal.  new Date(key) reads such a key  *)
(*    as midnight UTC; getFullYear / getMonth answer in the browser's      *)
(*    local time zone, which is an input of the model (tz, in hours).      *)
(*  - A JavaScript number is an exact rational <<n, d>> in lowest terms    *)
(*    with d > 0 (the source values are integers; the only division is the *)
(*    one of the normalizer).                                              *)
(*  - The value of a <select> control is a string, held as a sequence of   *)
(*    one-character strings, so that toString, split('-') and Number are   *)
(*    modelled by what they do.                                            *)
(*  - Chart.js is outside the repository: a chart is the data it was given.*)
(***************************************************************************)
EXTENDS Integers, Sequences, FiniteSets, TLC

VARIABLES
    pc,              \* position of init: "fetching", "parsing", "ready", "failed"
    tz,              \* the browser's UTC offset in hours (environment)
    response,        \* the Response the fetch resolved with (ok flag), or none yet
    allData,         \* line 16: the parsed document, or undefined
    loaded,          \* history: the document as response.json() returned it
    yearOptions,     \* the <option> values of yearFilter, "all" first
    yearFilter,      \* yearFilter.value
    quarterFilter,   \* quarterFilter.value
    monthFilter,     \* monthFilter.value
    listening,       \* lines 67-69: the three change listeners are registered
    chartInstances,  \* line 13: the individual charts
    aggregateChart,  \* line 14
    summaryChart,    \* line 15
    galleryErrors,   \* how many times line 74 wrote the message into chartGallery
    fetches,         \* how many times fetch('data.json') was called
    handlerRun       \* history: how the last run of handleFilterChange ended:
                     \* "never" (it has not run), "completed" or "threw"

vars == <<pc, tz, response, allData, loaded, yearOptions, yearFilter, quarterFilter,
          monthFilter, listening, chartInstances, aggregateChart, summaryChart,
          galleryErrors, fetches, handlerRun>>

----------------------------------------------------------------------------
(* Bounds of the model *)

\* a document of the filter runs holds at most MaxPoints points in all
MaxPoints == 2

\* the labels and colors of the series of a document; a document holds at most
\* MaxSeries series
Labels == <<"A", "B">>

Colors == <<<<"r", "(", "1", ")">>, <<"g", "(", "1", ")">>>>

MaxSeries == Len(Labels)

\* the UTC offsets of the browser's zone: one west of Greenwich, UTC, one east
TzOffsets == {-5, 0, 9}

\* the date keys of the documents of the filter runs
Dates == {<<2023, 1, 1>>, <<2024, 11, 1>>}

\* the values of the documents of the filter runs
Values == {0, 1}

\* the date keys and values of the documents of the load runs
WideDates == {<<2023, 1, 1>>, <<2023, 10, 5>>, <<2024, 11, 1>>}

WideValues == {0, 1, 3}

----------------------------------------------------------------------------
(* Numbers *)

Abs(n) == IF n < 0 THEN -n ELSE n

RECURSIVE Gcd(_, _)
Gcd(a, b) == IF b = 0 THEN a ELSE Gcd(b, a % b)

\* the rational n/d (d > 0) in lowest terms
Rat(n, d) == LET g == Gcd(Abs(n), d) IN <<n \div g, d \div g>>

RatAdd(a, b) == Rat(a[1] * b[2] + b[1] * a[2], a[2] * b[2])

RatLeq(a, b) == a[1] * b[2] <= b[1] * a[2]

Zero == Rat(0, 1)

Fifty == Rat(50, 1)

Hundred == Rat(100, 1)

RECURSIVE SeqMin(_)
SeqMin(s) ==
    IF Len(s) = 1 THEN s[1]
    ELSE LET m == SeqMin(Tail(s)) IN IF s[1] < m THEN s[1] ELSE m

RECURSIVE SeqMax(_)
SeqMax(s) ==
    IF Len(s) = 1 THEN s[1]
    ELSE LET m == SeqMax(Tail(s)) IN IF s[1] > m THEN s[1] ELSE m

----------------------------------------------------------------------------
(* Strings *)

Digits == <<"0", "1", "2", "3", "4", "5", "6", "7", "8", "9">>

DigitValue(c) == (CHOOSE i \in 1..Len(Digits) : Digits[i] = c) - 1

\* Number.prototype.toString of a non-negative integer
RECURSIVE NumToString(_)
NumToString(n) ==
    IF n < 10 THEN <<Digits[n + 1]>>
    ELSE Append(NumToString(n \div 10), Digits[(n % 10) + 1])

\* Number(s) of a string of decimal digits
RECURSIVE StringToNumber(_)
StringToNumber(s) ==
    IF s = <<>> THEN 0
    ELSE 10 * StringToNumber(SubSeq(s, 1, Len(s) - 1)) + DigitValue(s[Len(s)])

\* s.split('-')
RECURSIVE SplitDash(_)
SplitDash(s) ==
    IF \A i \in 1..Len(s) : s[i] # "-" THEN <<s>>
    ELSE LET k == CHOOSE i \in 1..Len(s) :
                      /\ s[i] = "-"
                      /\ \A j \in 1..(i - 1) : s[j] # "-"
         IN <<SubSeq(s, 1, k - 1)>> \o SplitDash(SubSeq(s, k + 1, Len(s)))

All == <<"a", "l", "l">>

----------------------------------------------------------------------------
(* Dates *)

\* days from 1970-01-01 to the civil date y-m-d (proleptic Gregorian)
DaysFromCivil(y, m, d) ==
    LET yy  == IF m <= 2 THEN y - 1 ELSE y
        era == yy \div 400
        yoe == yy - era * 400
        mp  == (m + 9) % 12
        doy == (153 * mp + 2) \div 5 + d - 1
        doe == yoe * 365 + yoe \div 4 - yoe \div 100 + doy
    IN era * 146097 + doe - 719468

\* the civil date <<y, m, d>> of a day number
CivilFromDays(z0) ==
    LET z   == z0 + 719468
        era == z \div 146097
        doe == z - era * 146097
        yoe == (doe - doe \div 1460 + doe \div 36524 - doe \div 146096) \div 365
        doy == doe - (365 * yoe + yoe \div 4 - yoe \div 100)
        mp  == (5 * doy + 2) \div 153
        d   == doy - (153 * mp + 2) \div 5 + 1
        m   == IF mp < 10 THEN mp + 3 ELSE mp - 9
        y   == yoe + era * 400
    IN <<IF m <= 2 THEN y + 1 ELSE y, m, d>>

\* new Date("YYYY-MM-DD"): the time value of midnight UTC of that day, in hours
\* (tabulated over the date keys of the model)
DateParseTable ==
    [key \in Dates \cup WideDates |-> 24 * DaysFromCivil(key[1], key[2], key[3])]

DateParse(key) == DateParseTable[key]

\* the local civil date of a time value in the zone with UTC offset zone hours
\* (tabulated over the time values and zones of the model)
LocalCivilTable ==
    [t \in {DateParseTable[key] : key \in Dates \cup WideDates}, zone \in TzOffsets |->
        CivilFromDays((t + zone) \div 24)]

LocalCivil(t, zone) == LocalCivilTable[t, zone]

\* Date.prototype.getFullYear
GetFullYear(t, zone) == LocalCivil(t, zone)[1]

\* Date.prototype.getMonth (0-11)
GetMonth(t, zone) == LocalCivil(t, zone)[2] - 1

----------------------------------------------------------------------------
(* The transforms of src/app.js *)

\* getQuarter(date), lines 80-83, of the Date with time value t
GetQuarter(t, zone) == (GetMonth(t, zone) \div 3) + 1

\* String.prototype.replace(pat, rep): the first occurrence of pat, if any
ReplaceFirst(s, pat, rep) ==
    LET hits == {i \in 1..(Len(s) - Len(pat) + 1) : SubSeq(s, i, i + Len(pat) - 1) = pat}
    IN IF hits = {} THEN s
       ELSE LET k == CHOOSE i \in hits : \A j \in hits : i <= j
            IN SubSeq(s, 1, k - 1) \o rep \o SubSeq(s, k + Len(pat), Len(s))

\* a dataset of the document carries a color property
HasColor(dataset) == "color" \in DOMAIN dataset

\* formatDatasetsForChart, lines 132-146 (the constant styling fields are left out)
FormatDatasetsForChart(datasets) ==
    [i \in 1..Len(datasets) |->
        [label           |-> datasets[i].label,
         data            |-> [j \in 1..Len(datasets[i].data) |->
                                [x |-> datasets[i].data[j].date,
                                 y |-> datasets[i].data[j].value]],
         borderColor     |-> datasets[i].color,
         backgroundColor |-> ReplaceFirst(datasets[i].color, <<"1", ")">>,
                                          <<"0", ".", "2">>)]]

\* NormalizedPoint with the zero-range case scaled like the others: 0 in place of 50
NormalizedPointZero(point, min, range) ==
    [x |-> point.date,
     y |-> IF range = 0 THEN Zero ELSE Rat((point.value - min) * 100, range),
     originalValue |-> point.value]

\* the normalized point of lines 162-175
NormalizedPoint(point, min, range) ==
    [x |-> point.date,
     y |-> IF range = 0 THEN Fifty ELSE Rat((point.value - min) * 100, range),
     originalValue |-> point.value]

\* the values of all the datasets, one after the other
RECURSIVE AllValues(_)
AllValues(datasets) ==
    IF datasets = <<>> THEN <<>>
    ELSE [j \in 1..Len(Head(datasets).data) |-> Head(datasets).data[j].value]
         \o AllValues(Tail(datasets))

\* normalizeAndFormatData with min and max taken once, over all the series
NormalizeAndFormatDataGlobal(datasets) ==
    [i \in 1..Len(datasets) |->
        LET dataset == datasets[i] IN
        IF Len(dataset.data) = 0
        THEN [dataset EXCEPT !.data = <<>>]
        ELSE LET values == AllValues(datasets)
                 min    == SeqMin(values)
                 max    == SeqMax(values)
                 range  == max - min
             IN [label |-> dataset.label,
                 data  |-> [j \in 1..Len(dataset.data) |->
                              NormalizedPoint(dataset.data[j], min, range)]]]

NonEmptySeries(dataset) == Len(dataset.data) > 0

\* normalizeAndFormatData leaving the empty series out of its result
NormalizeAndFormatDataDropEmpty(datasets) ==
    LET kept == SelectSeq(datasets, NonEmptySeries)
    IN [i \in 1..Len(kept) |->
           LET dataset == kept[i]
               values  == [j \in 1..Len(dataset.data) |-> dataset.data[j].value]
               min     == SeqMin(values)
               max     == SeqMax(values)
               range   == max - min
           IN [label |-> dataset.label,
               data  |-> [j \in 1..Len(dataset.data) |->
                            NormalizedPoint(dataset.data[j], min, range)]]]

\* normalizeAndFormatData, lines 151-182
NormalizeAndFormatData(datasets) ==
    [i \in 1..Len(datasets) |->
        LET dataset == datasets[i] IN
        IF Len(dataset.data) = 0
        THEN [dataset EXCEPT !.data = <<>>]
        ELSE LET values == [j \in 1..Len(dataset.data) |-> dataset.data[j].value]
                 min    == SeqMin(values)
                 max    == SeqMax(values)
                 range  == max - min
             IN [label |-> dataset.label,
                 data  |-> [j \in 1..Len(dataset.data) |->
                              NormalizedPoint(dataset.data[j], min, range)]]]

\* the points of all datasets in the order the nested forEach of lines 190-194 visits them
RECURSIVE AllPoints(_)
AllPoints(datasets) ==
    IF datasets = <<>> THEN <<>>
    ELSE Head(datasets).data \o AllPoints(Tail(datasets))

\* BuildDateMap with line 192 assigning point.y in place of adding it
RECURSIVE BuildDateMapOverwrite(_, _)
BuildDateMapOverwrite(points, acc) ==
    IF points = <<>> THEN acc
    ELSE LET p == Head(points) IN
         IF p.x \in DOMAIN acc.sums
         THEN BuildDateMapOverwrite(Tail(points),
                  [keys |-> acc.keys,
                   sums |-> [acc.sums EXCEPT ![p.x] = p.y]])
         ELSE BuildDateMapOverwrite(Tail(points),
                  [keys |-> Append(acc.keys, p.x),
                   sums |-> acc.sums @@ (p.x :> p.y)])

\* lines 188-194: dateMap, as its keys in insertion order and the sum under each key
RECURSIVE BuildDateMap(_, _)
BuildDateMap(points, acc) ==
    IF points = <<>> THEN acc
    ELSE LET p == Head(points) IN
         IF p.x \in DOMAIN acc.sums
         THEN BuildDateMap(Tail(points),
                  [keys |-> acc.keys,
                   sums |-> [acc.sums EXCEPT ![p.x] = RatAdd(@, p.y)]])
         ELSE BuildDateMap(Tail(points),
                  [keys |-> Append(acc.keys, p.x),
                   sums |-> acc.sums @@ (p.x :> RatAdd(Zero, p.y))])

EmptyDateMap == [keys |-> <<>>, sums |-> [k \in {} |-> Zero]]

\* the comparator of line 201: new Date(a.x) - new Date(b.x)
CompareDates(a, b) == DateParse(a.x) - DateParse(b.x)

RECURSIVE InsertByDate(_, _)
InsertByDate(sorted, e) ==
    IF sorted = <<>> THEN <<e>>
    ELSE IF CompareDates(Head(sorted), e) <= 0
         THEN <<Head(sorted)>> \o InsertByDate(Tail(sorted), e)
         ELSE <<e>> \o sorted

\* Array.prototype.sort with that comparator (a stable sort)
RECURSIVE SortByDate(_)
SortByDate(s) ==
    IF s = <<>> THEN <<>>
    ELSE InsertByDate(SortByDate(SubSeq(s, 1, Len(s) - 1)), s[Len(s)])

\* createAggregateData without the sort of line 201
CreateAggregateDataUnsorted(normalizedDatasets) ==
    LET dateMap == BuildDateMap(AllPoints(normalizedDatasets), EmptyDateMap)
    IN [i \in 1..Len(dateMap.keys) |->
           [x |-> dateMap.keys[i], y |-> dateMap.sums[dateMap.keys[i]]]]

\* createAggregateData, lines 187-204
CreateAggregateData(normalizedDatasets) ==
    LET dateMap == BuildDateMap(AllPoints(normalizedDatasets), EmptyDateMap)
        aggregateData == [i \in 1..Len(dateMap.keys) |->
                             [x |-> dateMap.keys[i], y |-> dateMap.sums[dateMap.keys[i]]]]
    IN SortByDate(aggregateData)

\* a set of numbers as a sequence in descending order (line 412)
RECURSIVE SortDescending(_)
SortDescending(S) ==
    IF S = {} THEN <<>>
    ELSE LET m == CHOOSE x \in S : \A y \in S : y <= x
         IN <<m>> \o SortDescending(S \ {m})

\* populateYearFilter, lines 404-418: the option values appended to yearFilter
PopulateYearFilter(datasets, zone) ==
    LET years  == UNION {{GetFullYear(DateParse(datasets[i].data[j].date), zone) :
                             j \in 1..Len(datasets[i].data)} : i \in 1..Len(datasets)}
        sorted == SortDescending(years)
    IN [k \in 1..Len(sorted) |-> NumToString(sorted[k])]

\* createChart, lines 210-258: an individual chart, as the data it holds
CreateChart(datasets, chartTitle) ==
    [title |-> chartTitle, datasets |-> FormatDatasetsForChart(datasets)]

\* createAggregateChart, lines 263-330
CreateAggregateChart(aggregateData) ==
    [constructed |-> TRUE, data |-> aggregateData]

\* createSummaryChart, lines 335-401
CreateSummaryChart(datasets) ==
    [constructed |-> TRUE, datasets |-> datasets]

\* let aggregateChart; let summaryChart; (lines 14-15)
NoChart == [constructed |-> FALSE]

\* let allData; (line 16)
Undefined == [undefined |-> TRUE]

----------------------------------------------------------------------------
(* The inputs: the document data.json and the filter controls *)

PointsOf(dates, values) == {[date |-> d, value |-> v] : d \in dates, v \in values}

\* the ways to cut a sequence of n points into s consecutive runs: the s - 1 places
\* of the cuts
Cuts(s, n) ==
    IF s <= 1 THEN {<<>>}
    ELSE {c \in [1..(s - 1) -> 0..n] : \A i \in 1..(s - 2) : c[i] <= c[i + 1]}

\* the s runs of the points f cut at cuts
SplitAt(f, cuts, s) ==
    [i \in 1..s |->
        SubSeq(f, (IF i = 1 THEN 0 ELSE cuts[i - 1]) + 1,
                  IF i = s THEN Len(f) ELSE cuts[i])]

\* the well-formed document whose datasets hold these data sequences
MakeDocument(dataLists) ==
    [datasets |-> [i \in 1..Len(dataLists) |->
                      [label |-> Labels[i], color |-> Colors[i], data |-> dataLists[i]]]]

\* the well-formed documents: up to MaxSeries datasets, up to budget points in all
DocumentsOf(points, budget) ==
    UNION {{MakeDocument(SplitAt(f, c, s)) : f \in [1..n -> points], c \in Cuts(s, n)} :
              s \in 0..MaxSeries, n \in 0..budget}

Documents == DocumentsOf(PointsOf(Dates, Values), MaxPoints)

\* doc with the color property of dataset k removed
WithoutColor(doc, k) ==
    [datasets |-> [i \in 1..Len(doc.datasets) |->
        IF i = k THEN [label |-> doc.datasets[i].label, data |-> doc.datasets[i].data]
        ELSE doc.datasets[i]]]

\* documents that parse as JSON and do not have the shape of data.json: one of the
\* datasets has no color
IllShapedDocuments ==
    UNION {{WithoutColor(doc, k) : k \in 1..Len(doc.datasets)} : doc \in Documents}

\* the option values of quarterFilter
QuarterOptions == {All, <<"1">>, <<"2">>, <<"3">>, <<"4">>}

\* option values of monthFilter: "all", "0-1", "10-11"
MonthOptions == {All, <<"0", "-", "1">>, <<"1", "0", "-", "1", "1">>}

----------------------------------------------------------------------------
(* The filter handler *)

\* lines 432-460: the year, quarter and month-pair stages applied to one series
FilterData(data, selectedYear, selectedQuarter, selectedMonth, zone) ==
    LET YearTest(point) ==
            NumToString(GetFullYear(DateParse(point.date), zone)) = selectedYear
        QuarterTest(point) ==
            NumToString(GetQuarter(DateParse(point.date), zone)) = selectedQuarter
        parts      == SplitDash(selectedMonth)
        monthStart == StringToNumber(parts[1])
        monthEnd   == StringToNumber(parts[2])
        MonthTest(point) ==
            LET month == GetMonth(DateParse(point.date), zone)
            IN month = monthStart \/ month = monthEnd
        byYear     == IF selectedYear # All THEN SelectSeq(data, YearTest) ELSE data
        byQuarter  == IF selectedQuarter # All THEN SelectSeq(byYear, QuarterTest)
                      ELSE byYear
    IN IF selectedMonth # All THEN SelectSeq(byQuarter, MonthTest) ELSE byQuarter

\* lines 430-462 and 472: filteredDatasets
FilteredDatasets(datasets, selectedYear, selectedQuarter, selectedMonth, zone) ==
    [i \in 1..Len(datasets) |->
        [datasets[i] EXCEPT !.data =
            FilterData(datasets[i].data, selectedYear, selectedQuarter,
                       selectedMonth, zone)]]

\* handleFilterChange in place of its source: the filtered series written back
HandleFilterChangeInPlace(selectedYear, selectedQuarter, selectedMonth) ==
    LET filteredDatasets == FilteredDatasets(allData.datasets, selectedYear,
                                selectedQuarter, selectedMonth, tz)
        normalizedDatasets == NormalizeAndFormatData(filteredDatasets)
    IN /\ handlerRun' = "completed"
       /\ allData' = [allData EXCEPT !.datasets = filteredDatasets]
       /\ chartInstances' =
              [i \in 1..Len(chartInstances) |->
                  [chartInstances[i] EXCEPT
                      !.datasets = FormatDatasetsForChart(<<filteredDatasets[i]>>)]]
       /\ summaryChart' = [summaryChart EXCEPT !.datasets = normalizedDatasets]
       /\ aggregateChart' =
              [aggregateChart EXCEPT !.data = CreateAggregateData(normalizedDatasets)]

\* handleFilterChange with step 7 (lines 480-483) missing
HandleFilterChangeNoAggregate(selectedYear, selectedQuarter, selectedMonth) ==
    LET filteredDatasets == FilteredDatasets(allData.datasets, selectedYear,
                                selectedQuarter, selectedMonth, tz)
        normalizedDatasets == NormalizeAndFormatData(filteredDatasets)
    IN /\ handlerRun' = "completed"
       /\ allData' = allData
       /\ chartInstances' =
              [i \in 1..Len(chartInstances) |->
                  [chartInstances[i] EXCEPT
                      !.datasets = FormatDatasetsForChart(<<filteredDatasets[i]>>)]]
       /\ summaryChart' = [summaryChart EXCEPT !.datasets = normalizedDatasets]
       /\ aggregateChart' = aggregateChart

\* handleFilterChange, lines 423-484, with the three control values it reads
HandleFilterChange(selectedYear, selectedQuarter, selectedMonth) ==
    /\ allData' = allData
    /\ IF allData = Undefined
       THEN \* line 430 throws a TypeError: nothing was updated
            /\ handlerRun' = "threw"
            /\ UNCHANGED <<chartInstances, summaryChart, aggregateChart>>
       ELSE LET filteredDatasets == FilteredDatasets(allData.datasets, selectedYear,
                                        selectedQuarter, selectedMonth, tz)
                normalizedDatasets == NormalizeAndFormatData(filteredDatasets)
                aggregateData == CreateAggregateData(normalizedDatasets)
            IN /\ chartInstances' =
                      [i \in 1..Len(chartInstances) |->
                          IF i <= Len(filteredDatasets)
                          THEN [chartInstances[i] EXCEPT !.datasets =
                                    FormatDatasetsForChart(<<filteredDatasets[i]>>)]
                          ELSE chartInstances[i]]
               /\ IF summaryChart.constructed /\ aggregateChart.constructed
                  THEN /\ handlerRun' = "completed"
                       /\ summaryChart' =
                              [summaryChart EXCEPT !.datasets = normalizedDatasets]
                       /\ aggregateChart' =
                              [aggregateChart EXCEPT !.data = aggregateData]
                  ELSE \* line 477 or line 482 throws a TypeError
                       /\ handlerRun' = "threw"
                       /\ UNCHANGED <<summaryChart, aggregateChart>>

\* a change event of a filter control: the handler runs if it is registered
Dispatch(selectedYear, selectedQuarter, selectedMonth) ==
    /\ IF listening
       THEN HandleFilterChange(selectedYear, selectedQuarter, selectedMonth)
       ELSE UNCHANGED <<allData, chartInstances, summaryChart, aggregateChart,
                        handlerRun>>
    /\ UNCHANGED <<pc, tz, response, loaded, yearOptions, listening, galleryErrors,
                   fetches>>

\* the user picks another year
ChangeYear ==
    \E v \in {yearOptions[i] : i \in 1..Len(yearOptions)} \ {yearFilter} :
        /\ yearFilter' = v
        /\ UNCHANGED <<quarterFilter, monthFilter>>
        /\ Dispatch(v, quarterFilter, monthFilter)

\* the user picks another quarter
ChangeQuarter ==
    \E v \in QuarterOptions \ {quarterFilter} :
        /\ quarterFilter' = v
        /\ UNCHANGED <<yearFilter, monthFilter>>
        /\ Dispatch(yearFilter, v, monthFilter)

\* the user picks another month pair
ChangeMonth ==
    \E v \in MonthOptions \ {monthFilter} :
        /\ monthFilter' = v
        /\ UNCHANGED <<yearFilter, quarterFilter>>
        /\ Dispatch(yearFilter, quarterFilter, v)

----------------------------------------------------------------------------
(* init *)

\* the state at the first await of init (line 31), init being called at line 488
Init ==
    /\ pc = "fetching"
    /\ tz \in TzOffsets
    /\ response = "pending"
    /\ allData = Undefined
    /\ loaded = Undefined
    /\ yearOptions = <<All>>
    /\ yearFilter = All
    /\ quarterFilter = All
    /\ monthFilter = All
    /\ listening = FALSE
    /\ chartInstances = <<>>
    /\ aggregateChart = NoChart
    /\ summaryChart = NoChart
    /\ galleryErrors = 0
    /\ fetches = 1
    /\ handlerRun = "never"

\* the catch block, lines 71-75
Catch ==
    /\ pc' = "failed"
    /\ galleryErrors' = galleryErrors + 1

\* the fetch rejects (a network failure): line 31 throws
FetchRejected ==
    /\ pc = "fetching"
    /\ response' = "rejected"
    /\ Catch
    /\ UNCHANGED <<tz, allData, loaded, yearOptions, yearFilter, quarterFilter,
                   monthFilter, listening, chartInstances, aggregateChart,
                   summaryChart, fetches, handlerRun>>

\* the fetch resolves with a response that is not ok: line 33 throws
FetchNotOk ==
    /\ pc = "fetching"
    /\ response' = "not ok"
    /\ Catch
    /\ UNCHANGED <<tz, allData, loaded, yearOptions, yearFilter, quarterFilter,
                   monthFilter, listening, chartInstances, aggregateChart,
                   summaryChart, fetches, handlerRun>>

\* FetchOk with the listeners of lines 67-69 registered before the data is there
FetchOkListening ==
    /\ pc = "fetching"
    /\ response' = "ok"
    /\ pc' = "parsing"
    /\ listening' = TRUE
    /\ UNCHANGED <<tz, allData, loaded, yearOptions, yearFilter, quarterFilter,
                   monthFilter, chartInstances, aggregateChart, summaryChart,
                   galleryErrors, fetches, handlerRun>>

\* the fetch resolves with an ok response: init awaits response.json() (line 35)
FetchOk ==
    /\ pc = "fetching"
    /\ response' = "ok"
    /\ pc' = "parsing"
    /\ UNCHANGED <<tz, allData, loaded, yearOptions, yearFilter, quarterFilter,
                   monthFilter, listening, chartInstances, aggregateChart,
                   summaryChart, galleryErrors, fetches, handlerRun>>

\* response.json() rejects (the body is not JSON): line 35 throws
ParseRejected ==
    /\ pc = "parsing"
    /\ Catch
    /\ UNCHANGED <<tz, response, allData, loaded, yearOptions, yearFilter,
                   quarterFilter, monthFilter, listening, chartInstances,
                   aggregateChart, summaryChart, fetches, handlerRun>>

\* lines 35-75 once response.json() has resolved with doc
InitWith(doc) ==
    LET normalizedData == NormalizeAndFormatData(doc.datasets)
        aggregateData  == CreateAggregateData(normalizedData)
        colorless      == {i \in 1..Len(doc.datasets) : ~HasColor(doc.datasets[i])}
        \* the datasets the forEach of lines 52-64 gets through
        created        == IF colorless = {} THEN Len(doc.datasets)
                          ELSE (CHOOSE i \in colorless : \A j \in colorless : i <= j) - 1
    IN /\ allData' = doc
       /\ loaded' = doc
       /\ yearOptions' = yearOptions \o PopulateYearFilter(doc.datasets, tz)
       /\ aggregateChart' = CreateAggregateChart(aggregateData)
       /\ summaryChart' = CreateSummaryChart(normalizedData)
       /\ chartInstances' =
              [i \in 1..created |->
                  CreateChart(<<doc.datasets[i]>>, doc.datasets[i].label)]
       /\ IF colorless = {}
          THEN /\ listening' = TRUE
               /\ pc' = "ready"
               /\ UNCHANGED galleryErrors
          ELSE \* createChart throws at line 140 for dataset created + 1
               /\ Catch
               /\ UNCHANGED listening
       /\ UNCHANGED <<tz, response, yearFilter, quarterFilter, monthFilter, fetches,
                      handlerRun>>

\* response.json() resolves with a document
ParseFulfilled ==
    /\ pc = "parsing"
    /\ \E doc \in Documents \cup IllShapedDocuments : InitWith(doc)

Next ==
    \/ FetchRejected
    \/ FetchNotOk
    \/ FetchOk
    \/ ParseRejected
    \/ ParseFulfilled
    \/ ChangeYear
    \/ ChangeQuarter
    \/ ChangeMonth

Spec == Init /\ [][Next]_vars

\* response.json() resolves with a document of the load runs: up to MaxSeries
\* datasets and MaxPoints + 1 points, over the wider dates and values
ParseFulfilledWide ==
    /\ pc = "parsing"
    /\ \E s \in 0..MaxSeries, n \in 0..(MaxPoints + 1) :
           \E f \in [1..n -> PointsOf(WideDates, WideValues)], c \in Cuts(s, n) :
               InitWith(MakeDocument(SplitAt(f, c, s)))

NextTransforms ==
    \/ FetchOk
    \/ ParseFulfilledWide

\* init alone, over the wider documents: the transforms as lines 42-49 apply them
SpecTransforms == Init /\ [][NextTransforms]_vars

----------------------------------------------------------------------------
(* Properties of the transforms, on the runs of SpecTransforms *)

SeriesValues(dataset) == {dataset.data[j].value : j \in 1..Len(dataset.data)}

HasSpread(dataset) == \E v, w \in SeriesValues(dataset) : v < w

\* C3: every series with max > min is normalized into [0, 100], its minimum to 0
\* and its maximum to 100, and its result is the one it gets when normalized
\* alone, whatever the other series of the input are.
C3_NormalizedSpan ==
    pc = "ready" =>
        \A i \in 1..Len(allData.datasets) :
            LET src  == allData.datasets[i]
                out  == summaryChart.datasets[i]
                vals == SeriesValues(src)
            IN HasSpread(src) =>
                 /\ Len(out.data) = Len(src.data)
                 /\ \A j \in 1..Len(src.data) :
                        /\ RatLeq(Zero, out.data[j].y)
                        /\ RatLeq(out.data[j].y, Hundred)
                        /\ (\A w \in vals : src.data[j].value <= w)
                               => out.data[j].y = Zero
                        /\ (\A w \in vals : w <= src.data[j].value)
                               => out.data[j].y = Hundred
                 /\ out = NormalizeAndFormatData(<<src>>)[1]

\* a series with a spread beside a series holding a value above that spread
C3_Witness ==
    /\ pc = "ready"
    /\ \E i, k \in 1..Len(allData.datasets) :
           /\ i # k
           /\ HasSpread(allData.datasets[i])
           /\ \E v \in SeriesValues(allData.datasets[k]) :
                  \A w \in SeriesValues(allData.datasets[i]) : w < v
           /\ \E j \in 1..Len(summaryChart.datasets[i].data) :
                  summaryChart.datasets[i].data[j].y = Hundred

\* C4: every non-empty series whose values are all the same (a single point
\* included) has every point normalized to 50, with the point's own value kept as
\* originalValue.
C4_FlatSeriesFifty ==
    pc = "ready" =>
        \A i \in 1..Len(allData.datasets) :
            LET src == allData.datasets[i]
                out == summaryChart.datasets[i]
            IN Cardinality(SeriesValues(src)) = 1 =>
                 /\ Len(out.data) = Len(src.data)
                 /\ \A j \in 1..Len(src.data) :
                        /\ out.data[j].y = Fifty
                        /\ out.data[j].originalValue = src.data[j].value
                        /\ out.data[j].x = src.data[j].date

\* a series of two equal values beside a series of a single point
C4_Witness ==
    /\ pc = "ready"
    /\ \E i, k \in 1..Len(allData.datasets) :
           /\ Len(allData.datasets[i].data) = 2
           /\ Cardinality(SeriesValues(allData.datasets[i])) = 1
           /\ Len(allData.datasets[k].data) = 1
           /\ summaryChart.datasets[k].data[1].y = Fifty

RECURSIVE SumY(_)
SumY(points) ==
    IF points = <<>> THEN Zero ELSE RatAdd(Head(points).y, SumY(Tail(points)))

\* the normalized points of all the series with the date key
PointsOn(datasets, key) ==
    LET OnKey(point) == point.x = key IN SelectSeq(AllPoints(datasets), OnKey)

\* C5: the aggregate holds a point for exactly the date keys that occur in some
\* normalized series, and the value on a key is the sum of the normalized values
\* of all the points with that key, over all the series.
C5_AggregateSums ==
    pc = "ready" =>
        LET points == AllPoints(summaryChart.datasets)
            agg    == aggregateChart.data
        IN /\ {agg[i].x : i \in 1..Len(agg)} = {points[i].x : i \in 1..Len(points)}
           /\ \A i \in 1..Len(agg) :
                  agg[i].y = SumY(PointsOn(summaryChart.datasets, agg[i].x))

\* two series: one date key on which both have a point with a non-zero normalized
\* value, another date key on which only one has a point
C5_Witness ==
    /\ pc = "ready"
    /\ Len(summaryChart.datasets) = 2
    /\ \E d, e \in WideDates :
           /\ \A i \in 1..2 :
                  \E j \in 1..Len(summaryChart.datasets[i].data) :
                      /\ summaryChart.datasets[i].data[j].x = d
                      /\ summaryChart.datasets[i].data[j].y # Zero
           /\ Len(PointsOn(summaryChart.datasets, e)) = 1
           /\ \E i \in 1..Len(aggregateChart.data) : aggregateChart.data[i].x = e

\* the calendar order of two date keys
KeyBefore(a, b) ==
    \/ a[1] < b[1]
    \/ a[1] = b[1] /\ a[2] < b[2]
    \/ a[1] = b[1] /\ a[2] = b[2] /\ a[3] < b[3]

\* C6: the aggregate is in strictly ascending calendar order of its dates, so no
\* date occurs twice in it.
C6_AggregateChronological ==
    pc = "ready" =>
        \A i, j \in 1..Len(aggregateChart.data) :
            i < j => KeyBefore(aggregateChart.data[i].x, aggregateChart.data[j].x)

\* two series whose points come in an order that is not the calendar order: the
\* first point visited is not the first of the aggregate
C6_Witness ==
    /\ pc = "ready"
    /\ Len(summaryChart.datasets) = 2
    /\ Len(aggregateChart.data) >= 2
    /\ Len(summaryChart.datasets[1].data) >= 1
    /\ Len(summaryChart.datasets[2].data) >= 1
    /\ AllPoints(summaryChart.datasets)[1].x # aggregateChart.data[1].x

----------------------------------------------------------------------------
(* Properties of the load and of the filter handler, on the runs of Spec *)

\* the filtered series of the source datasets under the controls as they stand
CurrentFiltered(datasets) ==
    FilteredDatasets(datasets, yearFilter, quarterFilter, monthFilter, tz)

\* the points an individual chart holds, back as {date, value}
HeldPoints(chart) ==
    [j \in 1..Len(chart.datasets[1].data) |->
        [date  |-> chart.datasets[1].data[j].x,
         value |-> chart.datasets[1].data[j].y]]

\* C1: the loaded series are never changed by the filter handler, and what the
\* charts hold after a filter change is a function of the document as it was
\* loaded and of the controls as they stand.
C1_SourcePristine ==
    /\ pc = "ready" => allData = loaded
    /\ handlerRun = "completed" =>
          LET filtered   == CurrentFiltered(loaded.datasets)
              normalized == NormalizeAndFormatData(filtered)
          IN /\ chartInstances =
                    [i \in 1..Len(filtered) |->
                        CreateChart(<<filtered[i]>>, loaded.datasets[i].label)]
             /\ summaryChart = CreateSummaryChart(normalized)
             /\ aggregateChart = CreateAggregateChart(CreateAggregateData(normalized))

\* a filter change has narrowed a series, and a later one has put every control
\* back on "all": the charts hold all the loaded points again
C1_Witness ==
    /\ handlerRun = "completed"
    /\ yearFilter = All /\ quarterFilter = All /\ monthFilter = All
    /\ \E i \in 1..Len(loaded.datasets) :
           /\ Len(loaded.datasets[i].data) = 2
           /\ Len(chartInstances[i].datasets[1].data) = 2

\* the date key's own calendar fields: year, month index 0-11, quarter 1-4
KeyYear(key) == key[1]

KeyMonth(key) == key[2] - 1

KeyQuarter(key) == (KeyMonth(key) \div 3) + 1

\* the indices a month-pair option names
PairOf(option) ==
    {StringToNumber(SplitDash(option)[1]), StringToNumber(SplitDash(option)[2])}

\* C7 (as claimed): after a filter change every individual chart holds exactly the
\* source points, in their order, whose date has the selected calendar year, the
\* selected quarter and a month of the selected pair, a control on "all" removing
\* nothing, under the label and color of the series.
C7_FilterByCalendarDate ==
    handlerRun = "completed" =>
        \A i \in 1..Len(allData.datasets) :
            LET src == allData.datasets[i]
                Keep(point) ==
                    /\ yearFilter = All \/ NumToString(KeyYear(point.date)) = yearFilter
                    /\ quarterFilter = All
                           \/ NumToString(KeyQuarter(point.date)) = quarterFilter
                    /\ monthFilter = All \/ KeyMonth(point.date) \in PairOf(monthFilter)
            IN chartInstances[i].datasets =
                   FormatDatasetsForChart(<<[src EXCEPT !.data = SelectSeq(src.data, Keep)]>>)

\* the same, with the year, quarter and month the code reads: those of the local
\* date of midnight UTC of the key
FilterByLocalDate ==
    handlerRun = "completed" =>
        \A i \in 1..Len(allData.datasets) :
            LET src == allData.datasets[i]
                Keep(point) ==
                    LET local == LocalCivil(DateParse(point.date), tz) IN
                    /\ yearFilter = All \/ NumToString(KeyYear(local)) = yearFilter
                    /\ quarterFilter = All \/ NumToString(KeyQuarter(local)) = quarterFilter
                    /\ monthFilter = All \/ KeyMonth(local) \in PairOf(monthFilter)
            IN chartInstances[i].datasets =
                   FormatDatasetsForChart(<<[src EXCEPT !.data = SelectSeq(src.data, Keep)]>>)

\* C8: a filter change that leaves a series without points completes; the series
\* is there in the summary, empty and under its label, the aggregate is the one of
\* the other series alone, and each of these is normalized as it is on its own.
C8_EmptySeriesValid ==
    handlerRun # "never" =>
        /\ handlerRun = "completed"
        /\ LET filtered == CurrentFiltered(allData.datasets)
               others   == SelectSeq(filtered, NonEmptySeries)
           IN /\ Len(summaryChart.datasets) = Len(filtered)
              /\ \A i \in 1..Len(filtered) :
                     IF Len(filtered[i].data) = 0
                     THEN /\ summaryChart.datasets[i].data = <<>>
                          /\ summaryChart.datasets[i].label = allData.datasets[i].label
                     ELSE summaryChart.datasets[i] =
                              NormalizeAndFormatData(<<filtered[i]>>)[1]
              /\ aggregateChart.data =
                     CreateAggregateData(NormalizeAndFormatData(others))

\* the filter has emptied one series that has points and left points in another
C8_Witness ==
    /\ handlerRun = "completed"
    /\ \E i, k \in 1..Len(allData.datasets) :
           /\ Len(allData.datasets[i].data) > 0
           /\ Len(chartInstances[i].datasets[1].data) = 0
           /\ summaryChart.datasets[i].data = <<>>
           /\ Len(summaryChart.datasets[k].data) > 0
           /\ Len(aggregateChart.data) > 0

\* C9: after a filter change the three views go together: each individual chart
\* holds the raw points of its series that pass the controls as they stand, the
\* summary chart the normalization of the series these charts hold, and the
\* aggregate chart the aggregation of what the summary chart holds.
C9_ViewsAgree ==
    handlerRun # "never" =>
        LET filtered == CurrentFiltered(allData.datasets)
        IN /\ Len(chartInstances) = Len(filtered)
           /\ \A i \in 1..Len(filtered) :
                  /\ HeldPoints(chartInstances[i]) = filtered[i].data
                  /\ chartInstances[i].datasets[1].label = allData.datasets[i].label
           /\ summaryChart.datasets =
                  NormalizeAndFormatData(
                      [i \in 1..Len(chartInstances) |->
                          [allData.datasets[i] EXCEPT
                              !.data = HeldPoints(chartInstances[i])]])
           /\ aggregateChart.data = CreateAggregateData(summaryChart.datasets)

\* a filter change has removed points that the aggregate held before
C9_Witness ==
    /\ handlerRun = "completed"
    /\ \E i \in 1..Len(allData.datasets) :
           Len(chartInstances[i].datasets[1].data) < Len(allData.datasets[i].data)
    /\ Len(aggregateChart.data) < Len(CreateAggregateData(
                                         NormalizeAndFormatData(allData.datasets)))

\* the three chart views are all constructed, one individual chart per dataset
AllViews ==
    /\ allData # Undefined
    /\ aggregateChart.constructed
    /\ summaryChart.constructed
    /\ Len(chartInstances) = Len(allData.datasets)

\* no chart is constructed
NoViews ==
    /\ ~aggregateChart.constructed
    /\ ~summaryChart.constructed
    /\ chartInstances = <<>>

\* C10: the listeners are registered, and the handler has run, only in a session
\* whose init has loaded the document and constructed every chart; before that,
\* and in a session whose load failed, a control change runs no handler.
C10_HandlerAfterInit ==
    (listening \/ handlerRun # "never") =>
        /\ pc = "ready"
        /\ allData = loaded
        /\ AllViews

\* a control was changed in a session whose load failed: no handler ran
C10_Witness ==
    /\ pc = "failed"
    /\ quarterFilter # All
    /\ handlerRun = "never"
    /\ ~listening

\* C2 (as claimed): no fetch is retried; a session whose fetch failed, whose
\* response was not ok or whose body did not parse has the message written once
\* and no chart; any other session that is through init has the document loaded
\* and all three views; no session is left with some of the views only.
C2_AllOrNothing ==
    /\ fetches = 1
    /\ pc \in {"fetching", "parsing"} => galleryErrors = 0 /\ NoViews
    /\ pc \in {"ready", "failed"} =>
          /\ AllViews \/ NoViews
          /\ IF loaded = Undefined
             THEN pc = "failed" /\ galleryErrors = 1 /\ NoViews
             ELSE pc = "ready" /\ galleryErrors = 0 /\ allData = loaded /\ AllViews

\* the part of C2 the code keeps: the three load failures write the message once
\* and leave no chart, and a session that gets to "ready" has all the views
LoadFailureLeavesNoChart ==
    /\ fetches = 1
    /\ (pc = "failed" /\ loaded = Undefined) => galleryErrors = 1 /\ NoViews
    /\ pc = "ready" => galleryErrors = 0 /\ AllViews

====
